---- MODULE Spec2Model ----
(***************************************************************************)
(* Saving and serialization of Keras models, as exercised by the notebook  *)
(* notebooks/keras-guide/save-and-serialize-models-with-keras.ipynb.       *)
(*                                                                         *)
(* The notebook's Python variables (model, new_model, config, weights,     *)
(* json_config, first_batch_loss, ...) and the files it writes are the     *)
(* state; every cell statement is an action.  Tensors are small integer    *)
(* vectors, the layer sizes 784/64/10 are scaled down to the bounds        *)
(* InputDim/Units/NumClasses, and a random initializer is a                *)
(* nondeterministic choice of a seed.  model.predict(x_test) changes no    *)
(* state and is the operator Predict.                                      *)
(***************************************************************************)
EXTENDS Integers, Sequences, FiniteSets, TLC

VARIABLES
    model,                \* the notebook variable `model`
    new_model,            \* `new_model` / `reinitialized_model`
    fs,                   \* the working directory: path name -> file content
    config,               \* `config = model.get_config()`
    json_config,          \* `json_config = model.to_json()`
    weights,              \* `weights = model.get_weights()`
    first_batch_loss,     \* `first_batch_loss = model.train_on_batch(...)`
    new_first_batch_loss, \* `new_first_batch_loss = new_model.train_on_batch(...)`
    error,                \* the exception raised by the last statement, "" if none
    hist,                 \* history: the model states the values above were taken from
    linear_layer,         \* `linear_layer = Linear(...)`
    my_sum,               \* `my_sum = ComputeSum(2)`
    y,                    \* `y = linear_layer(x)` / `y = my_sum(x)`
    layer,                \* `layer = Linear(64)`
    layer_config,         \* `config = layer.get_config()` of the layers notebook
    new_layer,            \* `new_layer = Linear.from_config(config)`
    layer_names,          \* the framework's count of the layers it has named
    cls,                  \* which `class Linear` statement was executed last
    calls                 \* history: the last call of each layer

\* The variables of the saving notebook and those of the layers notebook.
model_vars == <<model, new_model, fs, config, json_config, weights,
                first_batch_loss, new_first_batch_loss, error, hist>>

layer_vars == <<linear_layer, my_sum, y, layer, layer_config, new_layer,
                layer_names, cls, calls>>

vars == <<model_vars, layer_vars>>

----------------------------------------------------------------------------
(* Bounds *)

InputDim == 2      \* keras.Input(shape=(784,)), scaled down
Units == 1         \* Dense(64), scaled down
NumClasses == 2    \* Dense(10), scaled down
NumSeeds == 2      \* distinct draws of the random kernel initializer
NumBatches == 2    \* distinct training batches
BatchRows == 2     \* rows of an input batch given to a layer, tf.ones((2, 2))
MaxCalls == 2      \* calls of my_sum
MaxLayers == 2     \* layers the framework gives a name of its own
DefaultUnits == 32 \* def __init__(self, units=32)
MaxIter == 1       \* calls of fit on model, of the warm-up train_on_batch on new_model

Seeds == 1..NumSeeds
Batches == 1..NumBatches

----------------------------------------------------------------------------
(* Integer helpers *)

\* The sequence of the values of a function on 1..n.
Vec(f) == f \o <<>>

RECURSIVE SumTo(_, _)
SumTo(f, n) == IF n = 0 THEN 0 ELSE f[n] + SumTo(f, n - 1)

Abs(a) == IF a < 0 THEN -a ELSE a

Sign(a) == IF a > 0 THEN 1 ELSE IF a < 0 THEN -1 ELSE 0

relu(a) == IF a > 0 THEN a ELSE 0

Activation(name, a) == IF name = "relu" THEN relu(a) ELSE a

----------------------------------------------------------------------------
(* Architecture: the config of the 3_layer_mlp model *)

DenseLayers ==
    << [class_name |-> "Dense", name |-> "dense_1", units |-> Units,
        activation |-> "relu"],
       [class_name |-> "Dense", name |-> "dense_2", units |-> Units,
        activation |-> "relu"],
       [class_name |-> "Dense", name |-> "predictions", units |-> NumClasses,
        activation |-> "linear"] >>

\* The value of model.get_config() for the Functional model of Part I.
FunctionalConfig ==
    [name |-> "3_layer_mlp",
     input |-> [class_name |-> "InputLayer", name |-> "digits", shape |-> InputDim],
     layers |-> DenseLayers]

\* Input width of the i-th Dense layer of a config.
FanIn(cfg, i) == IF i = 1 THEN cfg.input.shape ELSE cfg.layers[i - 1].units

----------------------------------------------------------------------------
(* Weights: an ordered list of tensors, kernel and bias of each Dense layer *)

Tensor(shape, v) == [shape |-> shape, v |-> v]

\* Kernel initializer: a fresh random draw, here a function of the seed.
InitKernel(seed, l, fanin, units) ==
    Tensor(<<fanin, units>>,
           Vec([i \in 1..(fanin * units) |->
                   3 + ((seed + l + i) % (NumSeeds + 1))]))

\* Bias initializer: zeros.
InitBias(units) == Tensor(<<units>>, Vec([i \in 1..units |-> 0]))

\* The weight variables created for a config, in get_weights() order:
\* kernel, bias of dense_1, of dense_2, of predictions.
InitWeights(cfg, seed) ==
    Vec([k \in 1..(2 * Len(cfg.layers)) |->
            LET l == (k + 1) \div 2 IN
            IF k % 2 = 1
            THEN InitKernel(seed, l, FanIn(cfg, l), cfg.layers[l].units)
            ELSE InitBias(cfg.layers[l].units)])

Shapes(ws) == Vec([k \in 1..Len(ws) |-> ws[k].shape])

----------------------------------------------------------------------------
(* Forward pass *)

\* One Dense layer: activation(x . kernel + bias).
Dense(kernel, bias, act, x) ==
    LET n == kernel.shape[1]
        u == kernel.shape[2]
        k == kernel.v
        in == x
    IN  Vec([j \in 1..u |->
                LET terms == Vec([i \in 1..n |-> in[i] * k[(i - 1) * u + j]])
                IN  Activation(act, SumTo(terms, n) + bias.v[j])])

RECURSIVE Forward(_, _, _, _)
Forward(cfg, ws, l, x) ==
    IF l = 0 THEN x
    ELSE LET h == Forward(cfg, ws, l - 1, x)
         IN  Dense(ws[2 * l - 1], ws[2 * l], cfg.layers[l].activation, h)

\* x_test: the unit vectors and the all-ones vector.
x_test ==
    Vec([t \in 1..(InputDim + 1) |->
           Vec([i \in 1..InputDim |-> IF t = InputDim + 1 \/ t = i THEN 1 ELSE 0])])

\* model.predict(x_test) for a model with config cfg and weights ws.
Predict(cfg, ws) ==
    Vec([t \in 1..Len(x_test) |-> Forward(cfg, ws, Len(cfg.layers), x_test[t])])

----------------------------------------------------------------------------
(* Models *)

NoModel == [kind |-> "none"]

\* The optimizer created by keras.optimizers.RMSprop(): no step taken, its
\* slot variables (the moving average of squared gradients) not yet created.
BlankOptimizer == [iterations |-> 0, rms |-> <<>>]

NoTrainingConfig == [optimizer |-> "", loss |-> ""]

\* The arguments of compile in the notebook.
TrainingConfig == [optimizer |-> "RMSprop", loss |-> "SparseCategoricalCrossentropy"]

\* keras.Model(inputs=inputs, outputs=outputs, name='3_layer_mlp'): the input
\* shape is known, so the weights exist at construction.
FunctionalModel(cfg, seed) ==
    [kind |-> "functional", config |-> cfg, built |-> TRUE,
     weights |-> InitWeights(cfg, seed),
     compiled |-> FALSE, training_config |-> NoTrainingConfig,
     optimizer |-> BlankOptimizer]

\* get_model(): ThreeLayerMLP(name='3_layer_mlp').  The same three Dense
\* layers, but no input shape: no weight variables until the first call.
ThreeLayerMLP ==
    [kind |-> "subclassed", config |-> FunctionalConfig, built |-> FALSE,
     weights |-> <<>>,
     compiled |-> FALSE, training_config |-> NoTrainingConfig,
     optimizer |-> BlankOptimizer]

\* The first call of a model on data creates the weights it does not have yet.
Call(m, seed) ==
    IF m.built THEN m
    ELSE [m EXCEPT !.built = TRUE, !.weights = InitWeights(m.config, seed)]

\* model.compile(optimizer=keras.optimizers.RMSprop(), loss=...): a new
\* optimizer object, in a blank state.
Compile(m) ==
    [m EXCEPT !.compiled = TRUE, !.training_config = TrainingConfig,
              !.optimizer = BlankOptimizer]

----------------------------------------------------------------------------
(* Training *)

\* Batch b of (x_train, y_train): one sample and its label.
Batch(b) ==
    [x |-> Vec([i \in 1..InputDim |-> IF i = ((b - 1) % InputDim) + 1 THEN 1 ELSE 0]),
     y |-> ((b - 1) % NumClasses) + 1]

\* The compiled loss on a batch: a deterministic function of the logits and
\* the label (distance of the logits to the label's one-hot target).
Loss(cfg, ws, b) ==
    LET w == ws
        batch == Batch(b)
        logits == Forward(cfg, w, Len(cfg.layers), batch.x)
        n == Len(logits)
        dist == Vec([j \in 1..n |->
                        Abs(logits[j] - (IF j = batch.y THEN 100 ELSE 0))])
    IN  SumTo(dist, n)

\* The outputs of the layers on input x: Activations(...)[l + 1] is the
\* output of layer l, Activations(...)[1] is x itself.
RECURSIVE Activations(_, _, _, _)
Activations(cfg, ws, l, x) ==
    IF l = 0 THEN <<x>>
    ELSE LET below == Activations(cfg, ws, l - 1, x)
         IN  Append(below, Dense(ws[2 * l - 1], ws[2 * l],
                                 cfg.layers[l].activation, below[l]))

\* Backpropagation: the derivative of the loss with respect to the output of
\* each layer from layer l up, the first entry being layer l's.
RECURSIVE Deltas(_, _, _, _, _)
Deltas(cfg, ws, acts, l, b) ==
    LET out == acts[l + 1]
        u == Len(out)
    IN  IF l = Len(cfg.layers)
        THEN << Vec([j \in 1..u |->
                       Sign(out[j] - (IF j = Batch(b).y THEN 100 ELSE 0))]) >>
        ELSE LET above == Deltas(cfg, ws, acts, l + 1, b)
                 kernel == ws[2 * l + 1].v
                 n == Len(above[1])
             IN  << Vec([i \in 1..u |->
                           LET terms == Vec([j \in 1..n |->
                                               kernel[(i - 1) * n + j] * above[1][j]])
                           IN  IF cfg.layers[l].activation = "relu" /\ out[i] <= 0
                               THEN 0 ELSE SumTo(terms, n)]) >> \o above

\* Gradient of the loss, one entry per weight scalar; only its sign is kept.
Gradient(cfg, ws, b) ==
    LET w == ws
        acts == Activations(cfg, w, Len(cfg.layers), Batch(b).x)
        deltas == Deltas(cfg, w, acts, 1, b)
    IN  Vec([k \in 1..Len(w) |->
               LET l == (k + 1) \div 2
                   u == Len(deltas[l])
               IN  IF k % 2 = 1
                   THEN Vec([e \in 1..Len(w[k].v) |->
                               Sign(acts[l][((e - 1) \div u) + 1]
                                    * deltas[l][((e - 1) % u) + 1])])
                   ELSE Vec([j \in 1..u |-> Sign(deltas[l][j])])])

\* The optimizer's slot variables, created on the first step.
Slots(opt, ws) ==
    IF opt.rms = <<>>
    THEN Vec([k \in 1..Len(ws) |-> Vec([i \in 1..Len(ws[k].v) |-> 0])])
    ELSE opt.rms

\* One RMSprop step: accumulate the squared gradient and move each weight
\* against its gradient by a step that shrinks as the accumulator grows.
RMSpropStep(opt, ws, g) ==
    LET grad == g
        slots == Slots(opt, ws)
        rms == Vec([k \in 1..Len(ws) |->
                      Vec([i \in 1..Len(ws[k].v) |->
                             slots[k][i] + grad[k][i] * grad[k][i]])])
    IN  [optimizer |-> [iterations |-> opt.iterations + 1, rms |-> rms],
         weights |-> Vec([k \in 1..Len(ws) |->
                            Tensor(ws[k].shape,
                                   Vec([i \in 1..Len(ws[k].v) |->
                                          IF rms[k][i] = 0 THEN ws[k].v[i]
                                          ELSE ws[k].v[i]
                                               - grad[k][i] * (2 \div rms[k][i])]))])]

\* model.train_on_batch(x, y) on a built, compiled model: returns the loss of
\* the forward pass and applies one optimizer step.
TrainOnBatch(m, b) ==
    LET ws == m.weights
        g == Gradient(m.config, ws, b)
        step == RMSpropStep(m.optimizer, ws, g)
    IN  [loss |-> Loss(m.config, m.weights, b),
         model |-> [m EXCEPT !.weights = step.weights,
                             !.optimizer = step.optimizer]]

\* model.fit(x_train, y_train, batch_size=64, epochs=1): one step per batch,
\* in order.
RECURSIVE FitBatches(_, _)
FitBatches(m, n) ==
    IF n = 0 THEN m
    ELSE LET prev == FitBatches(m, n - 1)
         IN  TrainOnBatch(prev, n).model

Fit(m) == FitBatches(m, NumBatches)

----------------------------------------------------------------------------
(* JSON: the text written by to_json and read by model_from_json *)

Str(s) == [t |-> "string", s |-> s, d |-> <<>>]

RECURSIVE IntToDigits(_)
IntToDigits(n) ==
    IF n < 10 THEN <<n>> ELSE Append(IntToDigits(n \div 10), n % 10)

RECURSIVE DigitsToInt(_)
DigitsToInt(d) ==
    IF Len(d) = 0 THEN 0
    ELSE 10 * DigitsToInt(SubSeq(d, 1, Len(d) - 1)) + d[Len(d)]

Num(n) == [t |-> "number", s |-> "", d |-> IntToDigits(n)]

RECURSIVE LayersToJson(_, _)
LayersToJson(layers, n) ==
    IF n = 0 THEN <<>>
    ELSE LayersToJson(layers, n - 1) \o
         << Str(layers[n].class_name), Str(layers[n].name),
            Num(layers[n].units), Str(layers[n].activation) >>

\* model.to_json(): the config as a JSON text (a sequence of tokens).
ToJson(cfg) ==
    << Str("class_name"), Str("Model"), Str("name"), Str(cfg.name),
       Str(cfg.input.class_name), Str(cfg.input.name), Num(cfg.input.shape) >>
    \o LayersToJson(cfg.layers, Len(cfg.layers))

\* (mutant) the parser drops the layers' activation.
FromJson_NoActivation(js) ==
    [name |-> js[4].s,
     input |-> [class_name |-> js[5].s, name |-> js[6].s,
                shape |-> DigitsToInt(js[7].d)],
     layers |-> Vec([l \in 1..((Len(js) - 7) \div 4) |->
                       [class_name |-> js[4 * l + 4].s,
                        name |-> js[4 * l + 5].s,
                        units |-> DigitsToInt(js[4 * l + 6].d),
                        activation |-> "linear"]])]

\* The config parsed back from a JSON text.
FromJson(js) ==
    [name |-> js[4].s,
     input |-> [class_name |-> js[5].s, name |-> js[6].s,
                shape |-> DigitsToInt(js[7].d)],
     layers |-> Vec([l \in 1..((Len(js) - 7) \div 4) |->
                       [class_name |-> js[4 * l + 4].s,
                        name |-> js[4 * l + 5].s,
                        units |-> DigitsToInt(js[4 * l + 6].d),
                        activation |-> js[4 * l + 7].s]])]

----------------------------------------------------------------------------
(* Files *)

Path(stem, ext) == [stem |-> stem, ext |-> ext]

path_to_my_model_h5 == Path("path_to_my_model", ".h5")
path_to_saved_model == Path("path_to_saved_model", "")
model_config_json == Path("model_config", ".json")
path_to_my_weights_h5 == Path("path_to_my_weights", ".h5")
path_to_my_weights == Path("path_to_my_weights", "")
path_to_my_model == Path("path_to_my_model", "")
path_to_my_tf_checkpoint == Path("path_to_my_tf_checkpoint", "")
path_to_my_weights_keras == Path("path_to_my_weights", ".keras")

Paths == {path_to_my_model_h5, path_to_saved_model, model_config_json,
          path_to_my_weights_h5, path_to_my_weights, path_to_my_model,
          path_to_my_tf_checkpoint, path_to_my_weights_keras}

NoFile == [format |-> "none"]

\* (mutant) only the '.h5' extension selects HDF5.
SaveFormat_H5Only(path, save_format) ==
    IF save_format # "" THEN save_format
    ELSE IF path.ext = ".h5" THEN "h5" ELSE "tf"

\* The format save and save_weights write: the save_format argument if it is
\* given, else HDF5 for an '.h5' or '.keras' path and TensorFlow otherwise.
SaveFormat(path, save_format) ==
    IF save_format # "" THEN save_format
    ELSE IF path.ext \in {".h5", ".keras"} THEN "h5" ELSE "tf"

\* HDF5 stores the weights in one group per layer, under the layer's name.
LayerGroups(cfg, ws) ==
    Vec([l \in 1..Len(cfg.layers) |->
           [name |-> cfg.layers[l].name, weights |-> <<ws[2 * l - 1], ws[2 * l]>>]])

\* The weight list read back from the layer groups, in layer order.
WeightsFromGroups(groups) ==
    Vec([k \in 1..(2 * Len(groups)) |-> groups[(k + 1) \div 2].weights[2 - (k % 2)]])

\* What save stores of the training side: the arguments of compile and the
\* optimizer's state, if the model is compiled.
SavedTrainingConfig(m) == IF m.compiled THEN m.training_config ELSE NoTrainingConfig

\* (mutant) the optimizer's state is not written.
SavedOptimizer_Blank(m) == BlankOptimizer

SavedOptimizer(m) == IF m.compiled THEN m.optimizer ELSE BlankOptimizer

\* model.save(path): the whole model in one HDF5 file or one SavedModel
\* directory.
SavedModelFile(m, format) ==
    IF format = "h5"
    THEN [format |-> "h5",
          model_config |-> ToJson(m.config),
          training_config |-> SavedTrainingConfig(m),
          model_weights |-> LayerGroups(m.config, m.weights),
          optimizer_weights |-> SavedOptimizer(m)]
    ELSE [format |-> "tf",
          saved_model_pb |-> [model_config |-> ToJson(m.config),
                              training_config |-> SavedTrainingConfig(m)],
          variables |-> [weights |-> m.weights, optimizer |-> SavedOptimizer(m)]]

\* The parts of a whole-model file, whichever its format.
FileConfig(f) ==
    IF f.format = "h5" THEN f.model_config ELSE f.saved_model_pb.model_config

FileTrainingConfig(f) ==
    IF f.format = "h5" THEN f.training_config ELSE f.saved_model_pb.training_config

FileWeights(f) ==
    IF f.format = "h5" THEN WeightsFromGroups(f.model_weights)
    ELSE f.variables.weights

FileOptimizer(f) ==
    IF f.format = "h5" THEN f.optimizer_weights ELSE f.variables.optimizer

\* (mutant) the rebuilt model comes back compiled.
FromConfig_Compiled(cfg, seed) == Compile(FunctionalModel(cfg, seed))

\* keras.models.model_from_json / keras.Model.from_config: a new Functional
\* model with the config's architecture, freshly initialized and not compiled.
FromConfig(cfg, seed) == FunctionalModel(cfg, seed)

\* (mutant) the stored weights are not set: the rebuilt model keeps the
\* values its initializers drew.
LoadModel_FreshWeights(f, seed) ==
    LET fresh == FromConfig(FromJson(FileConfig(f)), seed)
    IN  IF FileTrainingConfig(f) = NoTrainingConfig THEN fresh
        ELSE [fresh EXCEPT !.compiled = TRUE,
                           !.training_config = FileTrainingConfig(f),
                           !.optimizer = FileOptimizer(f)]

\* keras.models.load_model(path): rebuild the architecture from the stored
\* config, set the stored weights, and, if a training config was stored,
\* compile with it and restore the optimizer's state.
LoadModel(f, seed) ==
    LET fresh == FromConfig(FromJson(FileConfig(f)), seed)
        loaded == [fresh EXCEPT !.weights = FileWeights(f)]
    IN  IF FileTrainingConfig(f) = NoTrainingConfig THEN loaded
        ELSE [loaded EXCEPT !.compiled = TRUE,
                            !.training_config = FileTrainingConfig(f),
                            !.optimizer = FileOptimizer(f)]

----------------------------------------------------------------------------
(* Weights-only files *)

\* model.save_weights(path): one HDF5 file with the layers' weights, or a
\* TensorFlow checkpoint with the layers' weights and the optimizer's state.
SavedWeightsFile(m, format) ==
    IF format = "h5"
    THEN [format |-> "h5", model_weights |-> LayerGroups(m.config, m.weights)]
    ELSE [format |-> "tf", variables |-> [weights |-> m.weights,
                                          optimizer |-> SavedOptimizer(m)]]

\* (mutant) the optimizer's variables are left as they are.
RestoreOptimizer_Keep(m, opt) == m.optimizer

\* The optimizer after a checkpoint is loaded: every optimizer variable the
\* checkpoint holds is restored into the variable the model has created.
RestoreOptimizer(m, opt) ==
    IF m.compiled /\ m.optimizer.rms # <<>>
    THEN [iterations |-> opt.iterations,
          rms |-> IF opt.rms = <<>> THEN m.optimizer.rms ELSE opt.rms]
    ELSE m.optimizer

\* (mutant) only the kernels are replaced, the biases keep their values.
SetWeights_KernelsOnly(m, ws) ==
    [m EXCEPT !.weights = Vec([k \in 1..Len(ws) |->
                                 IF k % 2 = 1 THEN ws[k] ELSE m.weights[k]])]

\* (mutant) the kernels are stored transposed.
SetWeights_Transposed(m, ws) ==
    [m EXCEPT !.weights =
        Vec([k \in 1..Len(ws) |->
               IF Len(ws[k].shape) = 2
               THEN Tensor(<<ws[k].shape[2], ws[k].shape[1]>>, ws[k].v)
               ELSE ws[k]])]

\* model.set_weights(ws): the values of the weight variables are replaced.
SetWeights(m, ws) == [m EXCEPT !.weights = ws]

\* (mutant) a TensorFlow checkpoint is not read.
LoadWeights_H5Only(m, f) ==
    IF f.format = "h5"
    THEN SetWeights(m, WeightsFromGroups(f.model_weights))
    ELSE m

\* model.load_weights(path) on a model whose variables exist.
LoadWeights(m, f) ==
    IF f.format = "h5"
    THEN SetWeights(m, WeightsFromGroups(f.model_weights))
    ELSE [SetWeights(m, f.variables.weights) EXCEPT
             !.optimizer = RestoreOptimizer(m, f.variables.optimizer)]

\* A directory entry: the path given to the call and what the writer appended.
File(path, suffix) == [stem |-> path.stem, ext |-> path.ext, suffix |-> suffix]

\* The directory entries a written path shows as: a SavedModel is a directory,
\* a TensorFlow checkpoint is the `checkpoint` file, an index and two data
\* shards, every other file is the one file of that name.
FilesOf(path, f) ==
    IF f.format = "none" THEN {}
    ELSE IF f.format # "tf" THEN {File(path, "")}
    ELSE IF "saved_model_pb" \in DOMAIN f THEN {File(path, "/")}
    ELSE {File(Path("checkpoint", ""), ""),
          File(path, ".index"),
          File(path, ".data-00000-of-00002"),
          File(path, ".data-00001-of-00002")}

\* The output of `ls`.
ls == UNION {FilesOf(path, fs[path]) : path \in Paths}

----------------------------------------------------------------------------
(* History *)

NoOrigin ==
    [made_by |-> "", made_from |-> NoModel, path |-> "",
     weights_by |-> "", weights_from |-> NoModel, weights_path |-> "",
     compile_called |-> FALSE, compiled_since |-> FALSE,
     warm |-> FALSE, steps |-> 0, trained |-> FALSE]

\* The part of a model's state that its weights alone carry.
WeightsOnly(m) ==
    [m EXCEPT !.compiled = FALSE, !.training_config = NoTrainingConfig,
              !.optimizer = BlankOptimizer]

\* How new_model came to be: the call that made it and, for load_model, the
\* state of `model` that was saved.
Made(by, from) == [NoOrigin EXCEPT !.made_by = by, !.made_from = from]

\* ... and the call that last replaced its weights, with the model state the
\* new values were taken from.
Loaded(o, by, from, path) ==
    [o EXCEPT !.weights_by = by, !.weights_from = from, !.weights_path = path,
              !.warm = o.steps > 0, !.trained = FALSE,
              !.compiled_since = FALSE]

HistInit ==
    [steps |-> 0,
     new_steps |-> 0,
     trained |-> FALSE,
     saved |-> [p \in Paths |-> NoModel],
     json_read |-> FALSE,
     set_back |-> FALSE,
     weights_of |-> NoModel,
     origin |-> NoOrigin, first |-> NoModel, new_first |-> NoOrigin]

----------------------------------------------------------------------------
(* Initial states *)

NoConfig == [name |-> ""]

\* The layers notebook before its first statement.
NoLayer == [class_name |-> "none"]

NoCalls == [linear_layer |-> NoLayer, my_sum |-> NoLayer, n |-> 0]

InitNoLayers ==
    /\ linear_layer = NoLayer
    /\ my_sum = NoLayer
    /\ y = Tensor(<<>>, <<>>)
    /\ layer = NoLayer
    /\ layer_config = [keys |-> {}, units |-> 0, name |-> [base |-> "", uid |-> 0],
                       trainable |-> TRUE, dtype |-> ""]
    /\ new_layer = NoLayer
    /\ layer_names = 0
    /\ cls = 0
    /\ calls = NoCalls

InitModelVars ==
    /\ new_model = NoModel
    /\ fs = [p \in Paths |-> NoFile]
    /\ config = NoConfig
    /\ json_config = <<>>
    /\ weights = <<>>
    /\ first_batch_loss = -1
    /\ new_first_batch_loss = -1
    /\ error = ""
    /\ hist = HistInit

InitRest == InitModelVars /\ InitNoLayers

\* Part I: the Functional model has just been built.
InitFunctional ==
    /\ \E seed \in Seeds : model = FunctionalModel(FunctionalConfig, seed)
    /\ InitRest

\* Part II: model = get_model().
InitSubclassed ==
    /\ model = ThreeLayerMLP
    /\ InitRest

----------------------------------------------------------------------------
(* The layers notebook: Linear and ComputeSum *)

\* The input batches a layer is called on: BatchRows rows, each all zeros
\* or all ones (tf.ones).
Rows == {Vec([i \in 1..InputDim |-> 0]), Vec([i \in 1..InputDim |-> 1])}

Inputs == [1..BatchRows -> Rows]

\* class Linear with its weights created in __init__: w random, b zeros.
Linear(units, input_dim, seed) ==
    [class_name |-> "Linear", units |-> units, built |-> TRUE,
     w |-> InitKernel(seed, 1, input_dim, units), b |-> InitBias(units)]

\* class Linear with a build method: no weights until the first call.
LazyLinear(units) ==
    [class_name |-> "Linear", units |-> units, built |-> FALSE,
     w |-> Tensor(<<>>, <<>>), b |-> Tensor(<<>>, <<>>)]

\* Linear.build(input_shape): w and b are both drawn by random_normal.
Build(l, input_shape, seed) ==
    [l EXCEPT !.built = TRUE,
              !.w = InitKernel(seed, 1, input_shape[2], l.units),
              !.b = Tensor(<<l.units>>,
                           Vec([j \in 1..l.units |-> 1 + ((seed + j) % (NumSeeds + 1))]))]

\* Linear.call(inputs): tf.matmul(inputs, self.w) + self.b
LinearCall(l, inputs) ==
    LET out == Vec([r \in 1..Len(inputs) |-> Dense(l.w, l.b, "linear", inputs[r])])
    IN  Tensor(<<Len(inputs), l.units>>,
               Vec([e \in 1..(Len(inputs) * l.units) |->
                      out[((e - 1) \div l.units) + 1][((e - 1) % l.units) + 1]]))

\* class ComputeSum: one non-trainable weight, total, zeros at first.
ComputeSum(input_dim) ==
    [class_name |-> "ComputeSum",
     total |-> Tensor(<<input_dim>>, Vec([i \in 1..input_dim |-> 0]))]

\* tf.reduce_sum(inputs, axis=0)
ReduceSum0(inputs) ==
    Vec([i \in 1..Len(inputs[1]) |->
           SumTo(Vec([r \in 1..Len(inputs) |-> inputs[r][i]]), Len(inputs))])

\* (mutant) the sum is returned but not assigned to total.
ComputeSumCall_NoAssign(l, inputs) ==
    LET sums == ReduceSum0(inputs)
        total == Vec([i \in 1..Len(sums) |-> l.total.v[i] + sums[i]])
    IN  [layer |-> l, output |-> Tensor(l.total.shape, total)]

\* ComputeSum.call(inputs): self.total.assign_add(tf.reduce_sum(inputs,
\* axis=0)); return self.total
ComputeSumCall(l, inputs) ==
    LET sums == ReduceSum0(inputs)
        total == Vec([i \in 1..Len(sums) |-> l.total.v[i] + sums[i]])
    IN  [layer |-> [l EXCEPT !.total = Tensor(l.total.shape, total)],
         output |-> Tensor(l.total.shape, total)]

\* The record of a call: its input, its output, and whether the call before
\* it on the same layer had the same input.
CallOf(last, x, out) ==
    [class_name |-> "call", x |-> x, y |-> out,
     twice |-> (last # NoLayer /\ last.x = x)]

\* linear_layer = Linear(4, 2)
NewLinearLayer ==
    /\ \E seed \in Seeds : linear_layer' = Linear(Units, InputDim, seed)
    /\ calls' = [calls EXCEPT !.linear_layer = NoLayer]
    /\ UNCHANGED <<my_sum, y, layer, layer_config, new_layer, layer_names, cls>>
    /\ UNCHANGED model_vars

\* linear_layer = Linear(32), the class with a build method
NewLazyLinearLayer ==
    /\ linear_layer' = LazyLinear(Units)
    /\ calls' = [calls EXCEPT !.linear_layer = NoLayer]
    /\ UNCHANGED <<my_sum, y, layer, layer_config, new_layer, layer_names, cls>>
    /\ UNCHANGED model_vars

\* y = linear_layer(x): __call__ runs build the first time, then call.
CallLinearLayer(x) ==
    /\ linear_layer # NoLayer
    /\ \E seed \in Seeds :
         /\ linear_layer.built => seed = 1
         /\ LET l == IF linear_layer.built THEN linear_layer
                     ELSE Build(linear_layer, <<Len(x), Len(x[1])>>, seed)
                out == LinearCall(l, x)
            IN  /\ linear_layer' = l
                /\ y' = out
                /\ calls' = [calls EXCEPT !.linear_layer =
                                CallOf(calls.linear_layer, x, out)]
    /\ UNCHANGED <<my_sum, layer, layer_config, new_layer, layer_names, cls>>
    /\ UNCHANGED model_vars

\* my_sum = ComputeSum(2)
NewComputeSum ==
    /\ my_sum' = ComputeSum(InputDim)
    /\ calls' = [calls EXCEPT !.my_sum = NoLayer, !.n = 0]
    /\ UNCHANGED <<linear_layer, y, layer, layer_config, new_layer, layer_names, cls>>
    /\ UNCHANGED model_vars

\* y = my_sum(x)
CallMySum(x) ==
    /\ my_sum # NoLayer
    /\ calls.n < MaxCalls
    /\ LET r == ComputeSumCall(my_sum, x)
       IN  /\ my_sum' = r.layer
           /\ y' = r.output
           /\ calls' = [calls EXCEPT !.my_sum = CallOf(calls.my_sum, x, r.output),
                                     !.n = @ + 1]
    /\ UNCHANGED <<linear_layer, layer, layer_config, new_layer, layer_names, cls>>
    /\ UNCHANGED model_vars

----------------------------------------------------------------------------
(* The layers notebook: the config of a layer *)

\* Keyword arguments and configs: the keys that are present and their values.
NoName == [base |-> "", uid |-> 0]

Kwargs(keys, units, name, trainable, dtype) ==
    [keys |-> keys, units |-> units, name |-> name, trainable |-> trainable,
     dtype |-> dtype]

NoKwargs == Kwargs({}, 0, NoName, TRUE, "")

\* The keyword arguments a layer is made with in place of `Linear(64)`.
UnitChoices == {Units, Units + 1}

KwargChoices ==
    {Kwargs({"units"}, u, NoName, TRUE, "") : u \in UnitChoices}
      \cup {Kwargs({"units", "name", "trainable"}, u,
                   [base |-> "my_linear", uid |-> 0], FALSE, "")
              : u \in UnitChoices}
      \cup {NoKwargs}

\* layers.Layer.__init__(**kwargs): a layer made without a name gets the next
\* name of its class; trainable is True and dtype the floatx by default.
BaseLayerInit(kwargs, uid) ==
    [name |-> IF "name" \in kwargs.keys THEN kwargs.name
              ELSE [base |-> "linear", uid |-> uid],
     trainable |-> IF "trainable" \in kwargs.keys THEN kwargs.trainable ELSE TRUE,
     dtype |-> IF "dtype" \in kwargs.keys THEN kwargs.dtype ELSE "float32"]

\* The keyword arguments the __init__ of the class accepts: units alone, or
\* units and, through **kwargs, those of the base class.
Accepted(c) ==
    IF c = 1 THEN {"units"} ELSE {"units", "name", "trainable", "dtype"}

\* Linear.__init__(self, units=32) / Linear.__init__(self, units=32, **kwargs)
LinearInit(c, kwargs, uid) ==
    LET base == BaseLayerInit(IF c = 1 THEN NoKwargs ELSE kwargs, uid)
    IN  [class_name |-> "Linear", version |-> c,
         units |-> IF "units" \in kwargs.keys THEN kwargs.units ELSE DefaultUnits,
         name |-> base.name, trainable |-> base.trainable, dtype |-> base.dtype]

\* (mutant) the second class forgets the config of its parent.
LayerGetConfig_UnitsOnly(l) == Kwargs({"units"}, l.units, NoName, TRUE, "")

\* Linear.get_config: {'units': self.units}, in the second class added to
\* the config of the parent: name, trainable, dtype.
LayerGetConfig(l) ==
    IF l.version = 1 THEN Kwargs({"units"}, l.units, NoName, TRUE, "")
    ELSE Kwargs({"name", "trainable", "dtype", "units"},
                l.units, l.name, l.trainable, l.dtype)

\* Whether __init__ will have to name the layer itself.
Unnamed(c, kwargs) == c = 1 \/ "name" \notin kwargs.keys

\* class Linear(layers.Layer): ... with get_config (first or second form)
DefineLinear(c) ==
    /\ cls' = c
    /\ UNCHANGED <<linear_layer, my_sum, y, layer, layer_config, new_layer,
                   layer_names, calls>>
    /\ UNCHANGED model_vars

\* layer = Linear(64), or with other keyword arguments
NewLayer(kwargs) ==
    /\ cls # 0
    /\ Unnamed(cls, kwargs) => layer_names < MaxLayers
    /\ IF kwargs.keys \subseteq Accepted(cls)
       THEN /\ layer' = LinearInit(cls, kwargs, layer_names + 1)
            /\ layer_names' = IF Unnamed(cls, kwargs) THEN layer_names + 1
                              ELSE layer_names
            /\ error' = ""
       ELSE /\ error' = "TypeError: __init__() got an unexpected keyword argument"
            /\ UNCHANGED <<layer, layer_names>>
    /\ UNCHANGED <<linear_layer, my_sum, y, layer_config, new_layer, cls, calls>>
    /\ UNCHANGED <<model, new_model, fs, config, json_config, weights,
                   first_batch_loss, new_first_batch_loss, hist>>

\* config = layer.get_config()
GetLayerConfig ==
    /\ layer # NoLayer
    /\ layer_config' = LayerGetConfig(layer)
    /\ error' = ""
    /\ UNCHANGED <<linear_layer, my_sum, y, layer, new_layer, layer_names, cls, calls>>
    /\ UNCHANGED <<model, new_model, fs, config, json_config, weights,
                   first_batch_loss, new_first_batch_loss, hist>>

\* new_layer = Linear.from_config(config), from_config being cls(**config)
FromLayerConfig ==
    /\ cls # 0
    /\ layer_config.keys # {}
    /\ Unnamed(cls, layer_config) => layer_names < MaxLayers
    /\ IF layer_config.keys \subseteq Accepted(cls)
       THEN /\ new_layer' = LinearInit(cls, layer_config, layer_names + 1)
            /\ layer_names' = IF Unnamed(cls, layer_config) THEN layer_names + 1
                              ELSE layer_names
            /\ error' = ""
       ELSE /\ error' = "TypeError: __init__() got an unexpected keyword argument"
            /\ UNCHANGED <<new_layer, layer_names>>
    /\ UNCHANGED <<linear_layer, my_sum, y, layer, layer_config, cls, calls>>
    /\ UNCHANGED <<model, new_model, fs, config, json_config, weights,
                   first_batch_loss, new_first_batch_loss, hist>>

NextLayerConfig ==
    \/ \E c \in {1, 2} : DefineLinear(c)
    \/ \E kwargs \in KwargChoices : NewLayer(kwargs)
    \/ GetLayerConfig
    \/ FromLayerConfig

InitLayers ==
    /\ model = NoModel
    /\ InitModelVars
    /\ InitNoLayers

NextCalls ==
    \/ NewLinearLayer
    \/ NewLazyLinearLayer
    \/ NewComputeSum
    \/ \E x \in Inputs : CallLinearLayer(x)
    \/ \E x \in Inputs : CallMySum(x)

SpecCalls == InitLayers /\ [][NextCalls]_vars

SpecLayerConfig == InitLayers /\ [][NextLayerConfig]_vars

----------------------------------------------------------------------------
(* Statements on `model` *)

\* model.compile(optimizer=keras.optimizers.RMSprop(), loss=...)
CompileModel ==
    /\ model' = Compile(model)
    /\ error' = ""
    /\ UNCHANGED layer_vars
    /\ UNCHANGED <<new_model, fs, config, json_config, weights,
                   first_batch_loss, new_first_batch_loss, hist>>

\* history = model.fit(x_train, y_train, batch_size=64, epochs=1)
FitModel ==
    /\ hist.steps < MaxIter
    /\ IF model.compiled
       THEN /\ \E seed \in Seeds :
                 /\ model.built => seed = 1
                 /\ model' = Fit(Call(model, seed))
            /\ hist' = [hist EXCEPT !.steps = @ + 1, !.trained = TRUE]
            /\ error' = ""
       ELSE /\ error' = "RuntimeError: You must compile your model before training"
            /\ UNCHANGED <<model, hist>>
    /\ UNCHANGED layer_vars
    /\ UNCHANGED <<new_model, fs, config, json_config, weights,
                   first_batch_loss, new_first_batch_loss>>

\* first_batch_loss = model.train_on_batch(x_train[:64], y_train[:64])
FirstBatchLoss ==
    /\ first_batch_loss = -1
    /\ model.built /\ model.compiled
    /\ LET r == TrainOnBatch(model, 1)
       IN  /\ model' = r.model
           /\ first_batch_loss' = r.loss
    /\ hist' = [hist EXCEPT !.trained = TRUE, !.first = model]
    /\ error' = ""
    /\ UNCHANGED layer_vars
    /\ UNCHANGED <<new_model, fs, config, json_config, weights,
                   new_first_batch_loss>>

----------------------------------------------------------------------------
(* Whole-model saving *)

\* (mutant) every model can be saved.
CannotSave_Never(m) == FALSE

\* A model whose weight variables do not exist yet cannot be saved.
CannotSave(m) == ~m.built

\* model.save(path) / model.save(path, save_format='tf')
Save(path, save_format) ==
    /\ IF CannotSave(model)
       THEN /\ error' = "ValueError: weights have not yet been created"
            /\ UNCHANGED <<fs, hist>>
       ELSE /\ fs' = [fs EXCEPT ![path] =
                        SavedModelFile(model, SaveFormat(path, save_format))]
            /\ hist' = [hist EXCEPT !.saved[path] = model]
            /\ error' = ""
    /\ UNCHANGED layer_vars
    /\ UNCHANGED <<model, new_model, config, json_config, weights,
                   first_batch_loss, new_first_batch_loss>>

\* new_model = keras.models.load_model(path)
LoadNewModel(path) ==
    /\ fs[path] # NoFile
    /\ \E seed \in Seeds : new_model' = LoadModel(fs[path], seed)
    /\ hist' = [hist EXCEPT !.origin =
                   [Loaded(Made("load_model", hist.saved[path]),
                           "load_model", hist.saved[path], path.stem)
                       EXCEPT !.path = path.stem]]
    /\ error' = ""
    /\ UNCHANGED layer_vars
    /\ UNCHANGED <<model, fs, config, json_config, weights,
                   first_batch_loss, new_first_batch_loss>>

----------------------------------------------------------------------------
(* Statements on `new_model` *)

\* new_model = get_model()
GetNewModel ==
    /\ new_model' = ThreeLayerMLP
    /\ hist' = [hist EXCEPT !.origin = Made("get_model", NoModel)]
    /\ error' = ""
    /\ UNCHANGED layer_vars
    /\ UNCHANGED <<model, fs, config, json_config, weights,
                   first_batch_loss, new_first_batch_loss>>

\* new_model.compile(optimizer=keras.optimizers.RMSprop(), loss=...)
CompileNew ==
    /\ new_model # NoModel
    /\ new_model' = Compile(new_model)
    /\ hist' = [hist EXCEPT !.origin.compile_called = TRUE,
                            !.origin.compiled_since = TRUE,
                            !.origin.steps = 0]
    /\ error' = ""
    /\ UNCHANGED layer_vars
    /\ UNCHANGED <<model, fs, config, json_config, weights,
                   first_batch_loss, new_first_batch_loss>>

\* new_model.train_on_batch(x_train[:1], y_train[:1]) on batch b, the
\* returned loss not kept.
TrainNew(b) ==
    /\ new_model # NoModel
    /\ hist.new_steps < MaxIter
    /\ IF new_model.compiled
       THEN /\ \E seed \in Seeds :
                 /\ new_model.built => seed = 1
                 /\ new_model' = TrainOnBatch(Call(new_model, seed), b).model
            /\ hist' = [hist EXCEPT !.new_steps = @ + 1,
                                    !.origin.steps = @ + 1,
                                    !.origin.trained = TRUE]
            /\ error' = ""
       ELSE /\ error' = "RuntimeError: You must compile your model before training"
            /\ UNCHANGED <<new_model, hist>>
    /\ UNCHANGED layer_vars
    /\ UNCHANGED <<model, fs, config, json_config, weights,
                   first_batch_loss, new_first_batch_loss>>

\* new_first_batch_loss = new_model.train_on_batch(x_train[:64], y_train[:64])
NewFirstBatchLoss ==
    /\ new_model # NoModel
    /\ new_first_batch_loss = -1
    /\ new_model.built /\ new_model.compiled
    /\ LET r == TrainOnBatch(new_model, 1)
       IN  /\ new_model' = r.model
           /\ new_first_batch_loss' = r.loss
    /\ hist' = [hist EXCEPT !.origin.steps = @ + 1,
                            !.origin.trained = TRUE,
                            !.new_first = hist.origin]
    /\ error' = ""
    /\ UNCHANGED layer_vars
    /\ UNCHANGED <<model, fs, config, json_config, weights, first_batch_loss>>

----------------------------------------------------------------------------
(* Architecture-only and weights-only saving *)

\* config = model.get_config()
GetConfig ==
    /\ model.kind = "functional"
    /\ config' = model.config
    /\ error' = ""
    /\ UNCHANGED layer_vars
    /\ UNCHANGED <<model, new_model, fs, json_config, weights,
                   first_batch_loss, new_first_batch_loss, hist>>

\* (mutant) the rebuilt model takes over the weight values of `model`.
NewFromConfig_CopiesWeights ==
    /\ config # NoConfig
    /\ \E seed \in Seeds :
         new_model' = [FromConfig(config, seed) EXCEPT !.weights = model.weights]
    /\ hist' = [hist EXCEPT !.origin = Made("from_config", NoModel)]
    /\ error' = ""
    /\ UNCHANGED layer_vars
    /\ UNCHANGED <<model, fs, config, json_config, weights,
                   first_batch_loss, new_first_batch_loss>>

\* new_model = keras.Model.from_config(config)
NewFromConfig ==
    /\ config # NoConfig
    /\ \E seed \in Seeds : new_model' = FromConfig(config, seed)
    /\ hist' = [hist EXCEPT !.origin = Made("from_config", NoModel)]
    /\ error' = ""
    /\ UNCHANGED layer_vars
    /\ UNCHANGED <<model, fs, config, json_config, weights,
                   first_batch_loss, new_first_batch_loss>>

\* json_config = model.to_json()
GetJson ==
    /\ model.kind = "functional"
    /\ json_config' = ToJson(model.config)
    /\ hist' = [hist EXCEPT !.json_read = FALSE]
    /\ error' = ""
    /\ UNCHANGED layer_vars
    /\ UNCHANGED <<model, new_model, fs, config, weights,
                   first_batch_loss, new_first_batch_loss>>

\* new_model = keras.models.model_from_json(json_config)
NewFromJson ==
    /\ json_config # <<>>
    /\ \E seed \in Seeds : new_model' = FromConfig(FromJson(json_config), seed)
    /\ hist' = [hist EXCEPT !.origin =
                   [Made("model_from_json", NoModel)
                       EXCEPT !.path = IF hist.json_read THEN model_config_json.stem
                                       ELSE ""]]
    /\ error' = ""
    /\ UNCHANGED layer_vars
    /\ UNCHANGED <<model, fs, config, json_config, weights,
                   first_batch_loss, new_first_batch_loss>>

\* (mutant) get_weights returns the kernels only.
GetWeights_KernelsOnly ==
    /\ model.built
    /\ weights' = Vec([l \in 1..(Len(model.weights) \div 2) |->
                          model.weights[2 * l - 1]])
    /\ hist' = [hist EXCEPT !.weights_of = WeightsOnly(model)]
    /\ error' = ""
    /\ UNCHANGED layer_vars
    /\ UNCHANGED <<model, new_model, fs, config, json_config,
                   first_batch_loss, new_first_batch_loss>>

\* weights = model.get_weights()
\* (the later `weight = model.get_weights()` assigns a name nothing reads)
GetWeights ==
    /\ model.built
    /\ weights' = model.weights
    /\ hist' = [hist EXCEPT !.weights_of = WeightsOnly(model)]
    /\ error' = ""
    /\ UNCHANGED layer_vars
    /\ UNCHANGED <<model, new_model, fs, config, json_config,
                   first_batch_loss, new_first_batch_loss>>

\* model.set_weights(weights)
SetWeightsModel ==
    /\ model.built
    /\ weights # <<>>
    /\ model' = SetWeights(model, weights)
    /\ hist' = [hist EXCEPT !.set_back =
                   @ \/ (hist.trained /\ hist.weights_of = WeightsOnly(model))]
    /\ error' = ""
    /\ UNCHANGED layer_vars
    /\ UNCHANGED <<new_model, fs, config, json_config, weights,
                   first_batch_loss, new_first_batch_loss>>

\* new_model.set_weights(weights)
SetWeightsNew ==
    /\ new_model # NoModel
    /\ new_model.built
    /\ weights # <<>>
    /\ new_model' = SetWeights(new_model, weights)
    /\ hist' = [hist EXCEPT !.origin = Loaded(hist.origin, "set_weights",
                                              hist.weights_of, "")]
    /\ error' = ""
    /\ UNCHANGED layer_vars
    /\ UNCHANGED <<model, fs, config, json_config, weights,
                   first_batch_loss, new_first_batch_loss>>

\* with open('model_config.json', 'w') as json_file: json_file.write(json_config)
WriteJson ==
    /\ json_config # <<>>
    /\ fs' = [fs EXCEPT ![model_config_json] = [format |-> "json", text |-> json_config]]
    /\ error' = ""
    /\ UNCHANGED layer_vars
    /\ UNCHANGED <<model, new_model, config, json_config, weights,
                   first_batch_loss, new_first_batch_loss, hist>>

\* with open('model_config.json') as json_file: json_config = json_file.read()
ReadJson ==
    /\ fs[model_config_json] # NoFile
    /\ json_config' = fs[model_config_json].text
    /\ hist' = [hist EXCEPT !.json_read = TRUE]
    /\ error' = ""
    /\ UNCHANGED layer_vars
    /\ UNCHANGED <<model, new_model, fs, config, weights,
                   first_batch_loss, new_first_batch_loss>>

\* model.save_weights(path) / model.save_weights(path, save_format='tf')
SaveWeights(path, save_format) ==
    /\ IF CannotSave(model)
       THEN /\ error' = "ValueError: weights have not yet been created"
            /\ UNCHANGED <<fs, hist>>
       ELSE /\ fs' = [fs EXCEPT ![path] =
                        SavedWeightsFile(model, SaveFormat(path, save_format))]
            /\ hist' = [hist EXCEPT !.saved[path] =
                           IF SaveFormat(path, save_format) = "h5"
                           THEN WeightsOnly(model) ELSE model]
            /\ error' = ""
    /\ UNCHANGED layer_vars
    /\ UNCHANGED <<model, new_model, config, json_config, weights,
                   first_batch_loss, new_first_batch_loss>>

\* new_model.load_weights(path)
LoadWeightsNew(path) ==
    /\ new_model # NoModel
    /\ new_model.built
    /\ fs[path] # NoFile
    /\ new_model' = LoadWeights(new_model, fs[path])
    /\ hist' = [hist EXCEPT !.origin = Loaded(hist.origin, "load_weights",
                                              hist.saved[path], path.stem)]
    /\ error' = ""
    /\ UNCHANGED layer_vars
    /\ UNCHANGED <<model, fs, config, json_config, weights,
                   first_batch_loss, new_first_batch_loss>>

----------------------------------------------------------------------------
(* Part I, whole-model saving *)

NextWhole ==
    \/ CompileModel
    \/ FitModel
    \/ Save(path_to_my_model_h5, "")
    \/ Save(path_to_saved_model, "tf")
    \/ LoadNewModel(path_to_my_model_h5)
    \/ LoadNewModel(path_to_saved_model)
    \/ \E b \in Batches : TrainNew(b)

SpecWhole == InitFunctional /\ [][NextWhole]_vars

----------------------------------------------------------------------------
(* Part I, architecture-only and weights-only saving, in memory and on disk *)

NextConfig ==
    \/ CompileModel
    \/ FitModel
    \/ GetConfig
    \/ NewFromConfig
    \/ GetJson
    \/ NewFromJson
    \/ GetWeights
    \/ SetWeightsNew
    \/ CompileNew
    \/ \E b \in Batches : TrainNew(b)

SpecConfig == InitFunctional /\ [][NextConfig]_vars

NextDisk ==
    \/ CompileModel
    \/ FitModel
    \/ GetJson
    \/ WriteJson
    \/ SaveWeights(path_to_my_weights_h5, "")
    \/ ReadJson
    \/ NewFromJson
    \/ LoadWeightsNew(path_to_my_weights_h5)
    \/ CompileNew
    \/ \E b \in Batches : TrainNew(b)

SpecDisk == InitFunctional /\ [][NextDisk]_vars

----------------------------------------------------------------------------
(* Part II, a subclassed model saved to a weights checkpoint and restored *)

\* The statements of the restore cell; the cell's last statement is the one
\* that takes new_first_batch_loss, and nothing is done to new_model after it.
RestoreCell ==
    /\ new_first_batch_loss = -1
    /\ \/ GetNewModel
       \/ CompileNew
       \/ \E b \in Batches : TrainNew(b)
       \/ LoadWeightsNew(path_to_my_weights)
       \/ NewFirstBatchLoss

NextSub ==
    \/ CompileModel
    \/ FitModel
    \/ SaveWeights(path_to_my_weights, "tf")
    \/ FirstBatchLoss
    \/ RestoreCell

SpecSub == InitSubclassed /\ [][NextSub]_vars

----------------------------------------------------------------------------
(* Parts I and II, which models can be saved *)

NextSave ==
    \/ CompileModel
    \/ FitModel
    \/ Save(path_to_saved_model, "tf")
    \/ Save(path_to_my_model, "tf")
    \/ SaveWeights(path_to_my_weights, "tf")

SpecSave == (InitFunctional \/ InitSubclassed) /\ [][NextSave]_vars

----------------------------------------------------------------------------
(* Part I, weights-only saving: the state read and set, in memory and on disk *)

NextWeights ==
    \/ CompileModel
    \/ FitModel
    \/ GetConfig
    \/ GetWeights
    \/ SetWeightsModel
    \/ NewFromConfig
    \/ SetWeightsNew
    \/ SaveWeights(path_to_my_weights_h5, "")
    \/ LoadWeightsNew(path_to_my_weights_h5)

SpecWeights == InitFunctional /\ [][NextWeights]_vars

----------------------------------------------------------------------------
(* Part I, the file format of save_weights *)

NextFormat ==
    \/ CompileModel
    \/ FitModel
    \/ SaveWeights(path_to_my_weights_h5, "")
    \/ SaveWeights(path_to_my_weights_keras, "")
    \/ SaveWeights(path_to_my_tf_checkpoint, "")
    \/ SaveWeights(path_to_my_tf_checkpoint, "tf")
    \/ SaveWeights(path_to_my_weights, "h5")

SpecFormat == InitFunctional /\ [][NextFormat]_vars

----------------------------------------------------------------------------
(* Claims on whole-model saving *)

\* new_model is as load_model returned it: nothing has been done to it since.
FreshlyLoaded ==
    /\ hist.origin.made_by = "load_model"
    /\ hist.origin.steps = 0
    /\ ~hist.origin.compile_called

\* C1: a Functional model returned by load_model, from the HDF5 file or from
\* the SavedModel directory, has the architecture and the weight values the
\* saved model had at the moment of model.save, and predicts the same on
\* every input.
C1_WholeModelRoundTrip ==
    FreshlyLoaded =>
        /\ new_model.kind = "functional"
        /\ new_model.config = hist.origin.made_from.config
        /\ new_model.weights = hist.origin.made_from.weights
        /\ Predict(new_model.config, new_model.weights)
             = Predict(hist.origin.made_from.config, hist.origin.made_from.weights)

\* C1 witness: a trained model was saved to the HDF5 file and the file was
\* loaded; the loaded weights are the saved ones, which no initializer draw
\* produces.
C1_Witness ==
    /\ FreshlyLoaded
    /\ hist.origin.path = "path_to_my_model"
    /\ hist.origin.made_from.optimizer.iterations > 0
    /\ new_model.weights = hist.origin.made_from.weights
    /\ \A seed \in Seeds : new_model.weights # InitWeights(new_model.config, seed)

\* C5: load_model after model.save of a compiled model returns a model that
\* is compiled with the same optimizer and loss and whose optimizer has the
\* saved state (a model saved uncompiled is loaded uncompiled); training it
\* without another compile continues exactly as the saved model would.
C5_TrainingStateSaved ==
    /\ FreshlyLoaded =>
         /\ new_model.compiled = hist.origin.made_from.compiled
         /\ new_model.training_config = hist.origin.made_from.training_config
         /\ new_model.optimizer = hist.origin.made_from.optimizer
    /\ ( /\ hist.origin.made_by = "load_model"
         /\ hist.origin.made_from.compiled
         /\ ~hist.origin.compile_called
         /\ hist.origin.steps = 1 ) =>
         \E b \in Batches :
             new_model = TrainOnBatch(hist.origin.made_from, b).model

\* C5 witness: a model saved after training was loaded from the SavedModel
\* directory and trained one more step without compile being called on it.
C5_Witness ==
    /\ hist.origin.made_by = "load_model"
    /\ hist.origin.path = "path_to_saved_model"
    /\ ~hist.origin.compile_called
    /\ hist.origin.steps = 1
    /\ hist.origin.made_from.optimizer.iterations > 0
    /\ hist.origin.made_from.optimizer.rms # <<>>
    /\ new_model.optimizer.iterations = hist.origin.made_from.optimizer.iterations + 1

----------------------------------------------------------------------------
(* Claims on architecture-only and weights-only saving *)

\* new_model was made by from_config and then given weights by set_weights;
\* it has not been trained since.
Recombined ==
    /\ hist.origin.made_by = "from_config"
    /\ hist.origin.weights_by = "set_weights"
    /\ ~hist.origin.trained

\* C2: from_config(config) followed by set_weights(weights) gives a model
\* with the config and the weight values of the model state that
\* get_weights read, and with that state's predictions on every input.
C2_RecombineConfigAndWeights ==
    Recombined =>
        /\ new_model.config = hist.origin.weights_from.config
        /\ new_model.weights = hist.origin.weights_from.weights
        /\ Predict(new_model.config, new_model.weights)
             = Predict(hist.origin.weights_from.config,
                       hist.origin.weights_from.weights)

\* C2 witness: config and weights were both read from the trained model in
\* its present state, and a model was recombined from them.
C2_Witness ==
    /\ Recombined
    /\ hist.trained
    /\ config = model.config
    /\ weights = model.weights
    /\ hist.origin.weights_from = WeightsOnly(model)
    /\ new_model.weights = model.weights
    /\ \A seed \in Seeds : new_model.weights # InitWeights(new_model.config, seed)

\* new_model is as from_config or model_from_json returned it.
Reinitialized ==
    /\ hist.origin.made_by \in {"from_config", "model_from_json"}
    /\ hist.origin.weights_by = ""
    /\ ~hist.origin.trained

\* C3: a model rebuilt by from_config or model_from_json has the original's
\* architecture and the values its initializers drew, not the trained
\* original's values, and its predictions differ from the trained original's.
C3_ArchitectureOnly ==
    Reinitialized =>
        /\ new_model.config = model.config
        /\ \E seed \in Seeds : new_model.weights = InitWeights(new_model.config, seed)
        /\ hist.trained =>
             /\ new_model.weights # model.weights
             /\ Predict(new_model.config, new_model.weights)
                  # Predict(model.config, model.weights)

\* C3 witness: the original has been trained and a model was rebuilt from its
\* JSON config.
C3_Witness ==
    /\ Reinitialized
    /\ hist.origin.made_by = "model_from_json"
    /\ hist.trained
    /\ model.optimizer.iterations > 0
    /\ new_model.weights # model.weights

\* new_model was rebuilt from a config (a dict or a JSON text).
FromArchitecture == hist.origin.made_by \in {"from_config", "model_from_json"}

\* C6: a model rebuilt from a config, with or without weights set or loaded
\* into it, is compiled only once compile has been called on it, has been
\* trained only after that, and its optimizer has taken exactly the steps
\* made since that compile: it started from the blank state.
C6_NotCompiledNoOptimizer ==
    FromArchitecture =>
        /\ new_model.compiled = hist.origin.compile_called
        /\ ~new_model.compiled =>
             /\ new_model.training_config = NoTrainingConfig
             /\ new_model.optimizer = BlankOptimizer
             /\ ~hist.origin.trained
        /\ new_model.optimizer.iterations = hist.origin.steps
        /\ hist.origin.steps = 0 => new_model.optimizer = BlankOptimizer

\* C6 witness: a model recombined from config and weights of a compiled,
\* trained original; training it was refused until compile was called, and
\* it has then taken its first step.
C6_Witness ==
    /\ FromArchitecture
    /\ hist.origin.weights_by \in {"set_weights", "load_weights"}
    /\ model.compiled /\ model.optimizer.iterations > 0
    /\ new_model.weights = hist.origin.weights_from.weights
    /\ hist.origin.compile_called
    /\ new_model.optimizer.iterations = 1

\* C6 witness of the refusal: train_on_batch on the recombined model raised
\* because compile had not been called.
C6_Refused ==
    /\ FromArchitecture
    /\ hist.origin.weights_by \in {"set_weights", "load_weights"}
    /\ ~new_model.compiled
    /\ error = "RuntimeError: You must compile your model before training"

----------------------------------------------------------------------------
(* Claim on the two-file round trip *)

\* new_model was made by model_from_json from the text read back from
\* model_config.json and then load_weights read path_to_my_weights.h5 into
\* it; it has not been trained since.
TwoFileRoundTrip ==
    /\ hist.origin.made_by = "model_from_json"
    /\ hist.origin.path = "model_config"
    /\ hist.origin.weights_by = "load_weights"
    /\ hist.origin.weights_path = "path_to_my_weights"
    /\ ~hist.origin.trained

\* C4: the model rebuilt from the JSON file and the HDF5 weights file has the
\* architecture and the weight values of the model at the moment of
\* save_weights, and that state's predictions on every input.
C4_TwoFileRoundTrip ==
    TwoFileRoundTrip =>
        /\ new_model.config = hist.origin.weights_from.config
        /\ new_model.weights = hist.origin.weights_from.weights
        /\ Predict(new_model.config, new_model.weights)
             = Predict(hist.origin.weights_from.config,
                       hist.origin.weights_from.weights)

\* C4 witness: both files were written from the trained model in its present
\* state and a model was rebuilt from them.
C4_Witness ==
    /\ TwoFileRoundTrip
    /\ hist.trained
    /\ hist.saved[path_to_my_weights_h5] = WeightsOnly(model)
    /\ hist.origin.weights_from = WeightsOnly(model)
    /\ fs[model_config_json].text = ToJson(model.config)
    /\ new_model.weights = model.weights
    /\ \A seed \in Seeds : new_model.weights # InitWeights(new_model.config, seed)

----------------------------------------------------------------------------
(* Claims on the subclassed model *)

\* new_model was made by get_model(), compiled, trained on a warm-up batch,
\* and then load_weights read the checkpoint path_to_my_weights into it; it
\* has not been trained since.
RestoredFromCheckpoint(o) ==
    /\ o.made_by = "get_model"
    /\ o.compile_called
    /\ o.warm
    /\ o.weights_by = "load_weights"
    /\ o.weights_path = "path_to_my_weights"
    /\ ~o.trained

\* C7: after the restore protocol the new instance has the weight values of
\* the model at the moment of save_weights, and that state's predictions,
\* whichever warm-up batch and initial draw it went through.
C7_SubclassedRestore ==
    RestoredFromCheckpoint(hist.origin) =>
        /\ new_model.built
        /\ new_model.weights = hist.origin.weights_from.weights
        /\ Predict(new_model.config, new_model.weights)
             = Predict(hist.origin.weights_from.config,
                       hist.origin.weights_from.weights)

\* C7 witness: the checkpoint holds trained weights, the warm-up step started
\* from another initial draw than the original model, and the restored
\* weights are those of the checkpoint.
C7_Witness ==
    /\ RestoredFromCheckpoint(hist.origin)
    /\ hist.trained
    /\ hist.origin.weights_from.compiled
    /\ \A seed \in Seeds :
         hist.origin.weights_from.weights
           # InitWeights(hist.origin.weights_from.config, seed)
    /\ new_model.weights = fs[path_to_my_weights].variables.weights
    /\ new_model.weights # model.weights

\* C8: the checkpoint of a compiled model holds its optimizer's state;
\* load_weights after the restore protocol puts it into the new instance's
\* optimizer; and the loss train_on_batch returns on the first batch is the
\* same for the restored model as for the original model in the saved state.
C8_OptimizerStateRestored ==
    /\ (fs[path_to_my_weights] # NoFile /\ hist.saved[path_to_my_weights].compiled)
          => fs[path_to_my_weights].variables.optimizer
               = hist.saved[path_to_my_weights].optimizer
    /\ ( /\ RestoredFromCheckpoint(hist.origin)
         /\ ~hist.origin.compiled_since
         /\ hist.origin.weights_from.compiled
         /\ hist.origin.weights_from.optimizer.rms # <<>> )
          => new_model.optimizer = hist.origin.weights_from.optimizer
    /\ ( /\ first_batch_loss # -1
         /\ new_first_batch_loss # -1
         /\ RestoredFromCheckpoint(hist.new_first)
         /\ hist.new_first.weights_from = hist.first )
          => first_batch_loss = new_first_batch_loss

\* C8 witness: both losses were taken, the original one right after the
\* checkpoint was written from a trained model, the new one right after the
\* restore protocol, and the restored model has since gone through the same
\* step as the original.
C8_Witness ==
    /\ first_batch_loss # -1
    /\ new_first_batch_loss = first_batch_loss
    /\ RestoredFromCheckpoint(hist.new_first)
    /\ ~hist.new_first.compiled_since
    /\ hist.new_first.weights_from = hist.first
    /\ hist.first.optimizer.rms # <<>>
    /\ hist.origin.steps = 2
    /\ new_model.weights = model.weights
    /\ new_model.optimizer = model.optimizer

\* C9: a subclassed model that was never called has no weight variables and
\* no save of it writes a file; once fit has called it, it has the weights of
\* its layers and a save writes the file.  A Functional model has its weights
\* from construction on and its save always writes the file.
C9_State ==
    /\ (model.kind = "subclassed" /\ ~hist.trained)
          => (~model.built /\ model.weights = <<>> /\ CannotSave(model)
              /\ fs = [p \in Paths |-> NoFile])
    /\ (model.kind = "subclassed" /\ hist.trained)
          => (model.built /\ ~CannotSave(model)
              /\ Shapes(model.weights) = Shapes(InitWeights(model.config, 1)))
    /\ model.kind = "functional"
          => (model.built /\ ~CannotSave(model)
              /\ Shapes(model.weights) = Shapes(InitWeights(model.config, 1)))

C9_Step ==
    /\ ~model.built => (fs' = fs /\ model'.built = hist'.trained)
    /\ \A p \in {path_to_saved_model, path_to_my_model} :
         (model.built /\ Save(p, "tf")) =>
             (error' = "" /\ fs'[p] = SavedModelFile(model, "tf"))
    /\ (model.built /\ SaveWeights(path_to_my_weights, "tf")) =>
             (error' = "" /\ fs'[path_to_my_weights] = SavedWeightsFile(model, "tf"))

C9_UnbuiltCannotBeSaved == []C9_State /\ [][C9_Step]_vars

\* C9 witness: a save of the compiled, never-called subclassed model has just
\* been refused and no file was written.
C9_Witness ==
    /\ model.kind = "subclassed"
    /\ model.compiled
    /\ ~model.built
    /\ error = "ValueError: weights have not yet been created"
    /\ fs = [p \in Paths |-> NoFile]

\* ... then fit created its weights and both kinds of save wrote their files.
C9_SavedAfterFit ==
    /\ model.kind = "subclassed"
    /\ model.built
    /\ fs[path_to_my_weights] = SavedWeightsFile(model, "tf")
    /\ fs[path_to_my_model] = SavedModelFile(model, "tf")
    /\ error = ""

\* ... and a Functional model that was never compiled or trained was saved.
C9_FunctionalSaved ==
    /\ model.kind = "functional"
    /\ ~model.compiled /\ ~hist.trained
    /\ fs[path_to_saved_model] # NoFile
    /\ fs[path_to_saved_model].variables.weights = model.weights

----------------------------------------------------------------------------
(* Claims on config and weights as separate parts of the state *)

\* The shapes the weights of a model of config cfg have: for each layer a
\* kernel of shape (fan-in, units) and a bias of shape (units).
ExpectedShapes(cfg) ==
    Vec([k \in 1..(2 * Len(cfg.layers)) |->
           LET l == (k + 1) \div 2
           IN  IF k % 2 = 1 THEN <<FanIn(cfg, l), cfg.layers[l].units>>
               ELSE <<cfg.layers[l].units>>])

\* C11: the config of model and of new_model is in every state the one they
\* were constructed with, get_config returns it, and the list of weights
\* keeps its length, order and shapes, whatever fit, train_on_batch,
\* set_weights and load_weights did to the values.
C11_ConfigAndShapesFixed ==
    /\ model.config = FunctionalConfig
    /\ Shapes(model.weights) = ExpectedShapes(FunctionalConfig)
    /\ config # NoConfig => config = FunctionalConfig
    /\ new_model # NoModel =>
          /\ new_model.config = FunctionalConfig
          /\ Shapes(new_model.weights) = ExpectedShapes(FunctionalConfig)
    /\ weights # <<>> => Shapes(weights) = ExpectedShapes(FunctionalConfig)

\* C11 witness: get_config was called on the trained model, whose weights
\* were also set from a list; new_model was rebuilt from that config and
\* load_weights gave it trained values.
C11_Witness ==
    /\ hist.trained
    /\ hist.set_back
    /\ config = model.config
    /\ \A seed \in Seeds : model.weights # InitWeights(model.config, seed)
    /\ new_model # NoModel
    /\ hist.origin.made_by = "from_config"
    /\ hist.origin.weights_by = "load_weights"
    /\ \A seed \in Seeds : new_model.weights # InitWeights(new_model.config, seed)

\* C12: model.set_weights(weights), with weights the list get_weights read
\* from the model in its present state, leaves the model as it is: every
\* weight value and every prediction.
C12_Step ==
    (SetWeightsModel /\ hist.weights_of = WeightsOnly(model)) =>
        /\ model'.weights = model.weights
        /\ Predict(model'.config, model'.weights) = Predict(model.config, model.weights)
        /\ model' = model

C12_SetGetIdentity == [][C12_Step]_vars

\* C12 witness: the list was read from the trained model and set back.
C12_Witness ==
    /\ hist.set_back
    /\ hist.trained
    /\ weights = model.weights
    /\ \A seed \in Seeds : model.weights # InitWeights(model.config, seed)

----------------------------------------------------------------------------
(* Claim on the file format of save_weights *)

\* The one file of an HDF5 save, the files of a checkpoint save.
OneFile(path) == {File(path, "")}

ShardFiles(path) ==
    {File(path, ".index"), File(path, ".data-00000-of-00002"),
     File(path, ".data-00001-of-00002")}

\* What ls shows of a path: the entries that carry its name.
Listed(path) == {e \in ls : e.stem = path.stem /\ e.ext = path.ext}

\* C13, on the files: a path ending in '.h5' or '.keras' saved without
\* save_format is one HDF5 file; the extension-less path saved without
\* save_format or with save_format='tf' is a checkpoint (index and data
\* shards, and the `checkpoint` file); the extension-less path saved with
\* save_format='h5' is one HDF5 file.
C13_Files ==
    /\ \A path \in {path_to_my_weights_h5, path_to_my_weights_keras, path_to_my_weights} :
         fs[path] # NoFile =>
            /\ fs[path].format = "h5"
            /\ Listed(path) = OneFile(path)
    /\ fs[path_to_my_tf_checkpoint] # NoFile =>
            /\ fs[path_to_my_tf_checkpoint].format = "tf"
            /\ Listed(path_to_my_tf_checkpoint) = ShardFiles(path_to_my_tf_checkpoint)
            /\ File(Path("checkpoint", ""), "") \in ls
    /\ \A path \in Paths : fs[path] = NoFile => Listed(path) = {}

\* C13, on the calls: save_weights(p, save_format='tf') for the
\* extension-less p leaves the directory as save_weights(p) does.
C13_Step ==
    SaveWeights(path_to_my_tf_checkpoint, "tf") =>
        /\ fs' = [fs EXCEPT ![path_to_my_tf_checkpoint] =
                     SavedWeightsFile(model, SaveFormat(path_to_my_tf_checkpoint, ""))]
        /\ ls' = UNION {FilesOf(path, fs[path]) :
                          path \in Paths \ {path_to_my_tf_checkpoint}}
                   \cup FilesOf(path_to_my_tf_checkpoint,
                                SavedWeightsFile(model, SaveFormat(path_to_my_tf_checkpoint, "")))

C13_SaveWeightsFormat == []C13_Files /\ [][C13_Step]_vars

\* C13 witness: the trained model's weights were saved under all four paths,
\* in the two formats.
C13_Witness ==
    /\ hist.trained
    /\ fs[path_to_my_weights_h5] = SavedWeightsFile(model, "h5")
    /\ fs[path_to_my_weights_keras] = SavedWeightsFile(model, "h5")
    /\ fs[path_to_my_weights] = SavedWeightsFile(model, "h5")
    /\ fs[path_to_my_tf_checkpoint] = SavedWeightsFile(model, "tf")
    /\ Listed(path_to_my_tf_checkpoint) = ShardFiles(path_to_my_tf_checkpoint)
    /\ Listed(path_to_my_weights_keras) = OneFile(path_to_my_weights_keras)

----------------------------------------------------------------------------
(* Claim on the calls of a layer *)

\* A step that calls linear_layer on the input of the call before it.
LinearCalledTwice ==
    /\ calls'.linear_layer # NoLayer
    /\ calls'.linear_layer.twice
    /\ CallLinearLayer(calls'.linear_layer.x)

\* A step that calls my_sum on the input of the call before it.
ComputeSumCalledTwice ==
    /\ calls'.my_sum # NoLayer
    /\ calls'.my_sum.twice
    /\ CallMySum(calls'.my_sum.x)

\* The second call returns the output of the first and leaves the weights
\* as they are: of linear_layer, of my_sum.
LinearPure ==
    LinearCalledTwice =>
        (y' = calls.linear_layer.y /\ linear_layer' = linear_layer)

ComputeSumPure ==
    ComputeSumCalledTwice =>
        (y' = calls.my_sum.y /\ my_sum' = my_sum)

\* C14 as stated: every layer's call, repeated on the same input, returns the
\* same output and leaves the layer's weights unchanged.
C14_EveryCallPure == [][LinearPure /\ ComputeSumPure]_vars

\* The second call of my_sum returns the output of the first plus the column
\* sums of the input, and total is that value afterwards.
ComputeSumAccumulates ==
    ComputeSumCalledTwice =>
        LET sums == ReduceSum0(calls'.my_sum.x)
        IN  /\ y'.v = Vec([i \in 1..InputDim |-> calls.my_sum.y.v[i] + sums[i]])
            /\ y'.shape = calls.my_sum.y.shape
            /\ my_sum'.total = y'
            /\ (\E i \in 1..InputDim : sums[i] # 0) =>
                  (y' # calls.my_sum.y /\ my_sum' # my_sum)

\* C14, amended: the call of Linear is pure; the call of ComputeSum adds the
\* column sums of its input to its weight and returns the new value.
C14_LinearPureSumAccumulates == [][LinearPure /\ ComputeSumAccumulates]_vars

\* C14 witness: both layers have just been called a second time on the same
\* input, a batch of ones for my_sum, whose output is then twice the sums.
C14_Witness ==
    /\ calls.linear_layer # NoLayer /\ calls.linear_layer.twice
    /\ calls.my_sum # NoLayer /\ calls.my_sum.twice
    /\ calls.my_sum.x = [r \in 1..BatchRows |-> Vec([i \in 1..InputDim |-> 1])]
    /\ calls.n = 2
    /\ y.v = Vec([i \in 1..InputDim |-> 2 * BatchRows])
    /\ my_sum.total = y

----------------------------------------------------------------------------
(* Claim on the config of a layer *)

\* A step new_layer = Linear.from_config(config) with config the config of
\* layer and Linear the class layer was made from.
RoundTrip ==
    /\ layer # NoLayer
    /\ layer.version = cls
    /\ layer_config = LayerGetConfig(layer)
    /\ FromLayerConfig

\* C15: the layer made from the config of layer has the units of layer and
\* the same config as layer; with the second class, whose config extends the
\* parent's, it also has the name, trainable and dtype of layer.
C15_Step ==
    RoundTrip =>
        /\ error' = ""
        /\ new_layer'.units = layer.units
        /\ LayerGetConfig(new_layer') = LayerGetConfig(layer)
        /\ cls = 2 => /\ new_layer'.name = layer.name
                      /\ new_layer'.trainable = layer.trainable
                      /\ new_layer'.dtype = layer.dtype
                      /\ new_layer' = layer

C15_LayerConfigRoundTrip == [][C15_Step]_vars

\* C15 witness: a layer of the second class, made with a name of its own and
\* trainable=False, and the layer made from its config.
C15_Witness ==
    /\ cls = 2
    /\ layer # NoLayer /\ layer.version = 2
    /\ ~layer.trainable
    /\ layer.units # DefaultUnits
    /\ layer_config = LayerGetConfig(layer)
    /\ new_layer = layer
    /\ error = ""

\* ... and a layer of the first class: same units, a name of its own.
C15_FirstClass ==
    /\ cls = 1
    /\ layer # NoLayer /\ layer.version = 1
    /\ layer_config = LayerGetConfig(layer)
    /\ new_layer # NoLayer /\ new_layer.version = 1
    /\ new_layer.units = layer.units
    /\ new_layer.name # layer.name
    /\ LayerGetConfig(new_layer) = layer_config

====
